---- MODULE Spec2Model ----
(***************************************************************************)
(* State machine of the App component (src/App.tsx): the five useState     *)
(* cells, the click / change handlers that the rendered view offers, and   *)
(* the pending generateStoryIdeas promise with its two continuations.      *)
(***************************************************************************)
EXTENDS Integers, Sequences, FiniteSets, TLC

\* ------------------------------------------------------------------ bounds
\* Longest idea list the service returns in the model.
MaxIdeas == 2
\* Number of generateStoryIdeas calls after which Spark Creativity is no
\* longer explored.
MaxCalls == 3

\* ------------------------------------------------- values of the program
\* `T | null`: null is the empty sequence, a value v is <<v>>.
None == <<>>
Some(v) == <<v>>

\* ./constants (not part of src/): a fixed, pre-populated list of
\* genre-tagged prompts and the genre filter values.  "Mystery" is a genre
\* of the selector that no prompt carries.
PROMPTS ==
  << [genre |-> "Fantasy", text |-> "A dragon who is afraid of fire."],
     [genre |-> "Fantasy", text |-> "A map that redraws itself every night."],
     [genre |-> "Sci-Fi",  text |-> "The last radio signal from Earth."] >>

GENRES == <<"All", "Fantasy", "Sci-Fi", "Mystery">>

\* A Prompt value is a reference into PROMPTS (its position); 0 is null.
NoPrompt == 0
PromptRefs == 1..Len(PROMPTS)

\* ./services/geminiService (not part of src/): the call either returns a
\* list of idea strings or throws an error object.
Ideas == {"idea-a", "idea-b"}
IdeaLists == UNION {[1..n -> Ideas] : n \in 0..MaxIdeas}
\* e.message of the thrown value: absent, empty, or a text.
Thrown == { [message |-> None],
            [message |-> Some("")],
            [message |-> Some("quota exceeded")] }

NoResult == [kind |-> "none", prompt |-> NoPrompt, ideas |-> <<>>, thrown |-> [message |-> None]]

VARIABLES
  currentPrompt,    \* useState<Prompt | null>(null)
  storyIdeas,       \* useState<string[]>([])
  isLoadingIdeas,   \* useState(false)
  error,            \* useState<string | null>(null)
  selectedGenre,    \* useState<string>('All')
  hasApiKey,        \* !!process.env.API_KEY, fixed for the session
  inflight,         \* pending generateStoryIdeas promises, each with its argument
  calls,            \* number of generateStoryIdeas calls issued so far
  lastResult,       \* what the most recently settled call returned or threw
  lastAct           \* the handler or continuation that ran last

vars == <<currentPrompt, storyIdeas, isLoadingIdeas, error, selectedGenre,
          hasApiKey, inflight, calls, lastResult, lastAct>>

Init ==
  /\ currentPrompt = NoPrompt
  /\ storyIdeas = <<>>
  /\ isLoadingIdeas = FALSE
  /\ error = None
  /\ selectedGenre = "All"
  /\ hasApiKey \in BOOLEAN
  /\ inflight = <<>>
  /\ calls = 0
  /\ lastResult = NoResult
  /\ lastAct = "init"

\* --------------------------------------------------------- pure helpers
\* A plausible slip: the genre filter is not applied.
filteredPromptsUnfiltered(genre) == [i \in 1..Len(PROMPTS) |-> i]

\* PROMPTS.filter(p => p.genre === selectedGenre), or PROMPTS for 'All'.
filteredPrompts(genre) ==
  LET all == [i \in 1..Len(PROMPTS) |-> i]
      Match(i) == PROMPTS[i].genre = genre
  IN  IF genre = "All" THEN all ELSE SelectSeq(all, Match)

NoPromptsMessage(genre) ==
  "No prompts found for the \"" \o genre \o "\" genre. Please select another."

NoApiKeyMessage == "AI features are disabled. Please configure your API key."

\* A plausible slip: the message is passed on without the fallback.
ErrorTextRaw(e) ==
  IF e.message = None THEN "undefined" ELSE e.message[1]

\* e.message || "An unknown error occurred."
ErrorText(e) ==
  IF e.message = None \/ e.message = Some("")
    THEN "An unknown error occurred."
    ELSE e.message[1]

\* Remove the j-th pending promise.
Without(s, j) == [i \in 1..(Len(s) - 1) |-> IF i < j THEN s[i] ELSE s[i + 1]]

\* ------------------------------------------------------------- handlers
\* A plausible slip: the handler does not start with setError(null).
handleGeneratePromptKeepsError ==
  /\ currentPrompt = NoPrompt
  /\ LET fp == filteredPrompts(selectedGenre) IN
       IF Len(fp) = 0
         THEN /\ error' = Some(NoPromptsMessage(selectedGenre))
              /\ UNCHANGED <<currentPrompt, storyIdeas>>
         ELSE \E randomIndex \in 0..(Len(fp) - 1) :
                /\ currentPrompt' = fp[randomIndex + 1]
                /\ storyIdeas' = <<>>
                /\ UNCHANGED error
  /\ lastAct' = "generatePrompt"
  /\ UNCHANGED <<isLoadingIdeas, selectedGenre, hasApiKey, inflight, calls, lastResult>>

\* "Generate a Prompt" button, rendered only while no prompt is selected.
handleGeneratePrompt ==
  /\ currentPrompt = NoPrompt
  /\ LET fp == filteredPrompts(selectedGenre) IN
       IF Len(fp) = 0
         THEN /\ error' = Some(NoPromptsMessage(selectedGenre))
              /\ UNCHANGED <<currentPrompt, storyIdeas>>
         ELSE \E randomIndex \in 0..(Len(fp) - 1) :
                /\ error' = None
                /\ currentPrompt' = fp[randomIndex + 1]
                /\ storyIdeas' = <<>>
  /\ lastAct' = "generatePrompt"
  /\ UNCHANGED <<isLoadingIdeas, selectedGenre, hasApiKey, inflight, calls, lastResult>>

\* A plausible slip: the selector does not call setError(null).
GenreSelectorKeepsError ==
  /\ currentPrompt = NoPrompt
  /\ \E i \in 1..Len(GENRES) :
       /\ GENRES[i] # selectedGenre
       /\ selectedGenre' = GENRES[i]
  /\ currentPrompt' = NoPrompt
  /\ storyIdeas' = <<>>
  /\ lastAct' = "selectGenre"
  /\ UNCHANGED <<error, isLoadingIdeas, hasApiKey, inflight, calls, lastResult>>

\* <select> onChange, rendered only while no prompt is selected; the change
\* event carries a value different from the one shown.
GenreSelectorOnChange ==
  /\ currentPrompt = NoPrompt
  /\ \E i \in 1..Len(GENRES) :
       /\ GENRES[i] # selectedGenre
       /\ selectedGenre' = GENRES[i]
  /\ currentPrompt' = NoPrompt
  /\ storyIdeas' = <<>>
  /\ error' = None
  /\ lastAct' = "selectGenre"
  /\ UNCHANGED <<isLoadingIdeas, hasApiKey, inflight, calls, lastResult>>

\* A plausible slip: the idea list survives Change Genre.
ChangeGenreKeepsIdeas ==
  /\ currentPrompt # NoPrompt
  /\ currentPrompt' = NoPrompt
  /\ lastAct' = "changeGenre"
  /\ UNCHANGED <<storyIdeas, isLoadingIdeas, error, selectedGenre, hasApiKey,
                 inflight, calls, lastResult>>

\* A plausible slip: Change Genre aborts the pending request.
ChangeGenreCancels ==
  /\ currentPrompt # NoPrompt
  /\ currentPrompt' = NoPrompt
  /\ storyIdeas' = <<>>
  /\ inflight' = <<>>
  /\ lastAct' = "changeGenre"
  /\ UNCHANGED <<isLoadingIdeas, error, selectedGenre, hasApiKey, calls, lastResult>>

\* A plausible slip: Change Genre also dismisses the error message.
ChangeGenreClearsError ==
  /\ currentPrompt # NoPrompt
  /\ currentPrompt' = NoPrompt
  /\ storyIdeas' = <<>>
  /\ error' = None
  /\ lastAct' = "changeGenre"
  /\ UNCHANGED <<isLoadingIdeas, selectedGenre, hasApiKey, inflight, calls, lastResult>>

\* "Change Genre" button, rendered only while a prompt is selected.
ChangeGenreOnClick ==
  /\ currentPrompt # NoPrompt
  /\ currentPrompt' = NoPrompt
  /\ storyIdeas' = <<>>
  /\ lastAct' = "changeGenre"
  /\ UNCHANGED <<isLoadingIdeas, error, selectedGenre, hasApiKey,
                 inflight, calls, lastResult>>

\* A plausible slip: the button is not disabled while loading.
SparkEnabledIgnoresLoading == currentPrompt # NoPrompt /\ hasApiKey

\* The "Spark Creativity" button is rendered with a prompt and is
\* disabled={isLoadingIdeas || !hasApiKey}.
SparkEnabled == currentPrompt # NoPrompt /\ ~(isLoadingIdeas \/ ~hasApiKey)

\* A plausible slip: the previous idea list is not cleared on a new request.
IssueRequestKeepsIdeas ==
  /\ calls < MaxCalls
  /\ isLoadingIdeas' = TRUE
  /\ error' = None
  /\ inflight' = Append(inflight, [prompt |-> currentPrompt])
  /\ calls' = calls + 1
  /\ lastAct' = "generateIdeas"
  /\ UNCHANGED <<currentPrompt, storyIdeas, selectedGenre, hasApiKey, lastResult>>

\* handleGenerateIdeas up to the await: the three setters and the call.
IssueRequest ==
  /\ calls < MaxCalls
  /\ isLoadingIdeas' = TRUE
  /\ error' = None
  /\ storyIdeas' = <<>>
  /\ inflight' = Append(inflight, [prompt |-> currentPrompt])
  /\ calls' = calls + 1
  /\ lastAct' = "generateIdeas"
  /\ UNCHANGED <<currentPrompt, selectedGenre, hasApiKey, lastResult>>

\* A plausible slip: the API-key check is missing from the handler.
handleGenerateIdeasNoKeyCheck ==
  IF currentPrompt = NoPrompt
    THEN UNCHANGED vars
    ELSE IssueRequest

\* handleGenerateIdeas, synchronous part.
handleGenerateIdeas ==
  IF currentPrompt = NoPrompt
    THEN UNCHANGED vars
    ELSE IF ~hasApiKey
      THEN /\ error' = Some(NoApiKeyMessage)
           /\ lastAct' = "generateIdeas"
           /\ UNCHANGED <<currentPrompt, storyIdeas, isLoadingIdeas, selectedGenre,
                          hasApiKey, inflight, calls, lastResult>>
      ELSE IssueRequest

SparkCreativityOnClick == SparkEnabled /\ handleGenerateIdeas

\* A plausible slip: the loading flag is reset only on the failure path.
OnResolvedNoFinally(j, ideas) ==
  /\ storyIdeas' = ideas
  /\ lastResult' = [kind |-> "ok", prompt |-> inflight[j].prompt,
                    ideas |-> ideas, thrown |-> [message |-> None]]
  /\ inflight' = Without(inflight, j)
  /\ lastAct' = "resolved"
  /\ UNCHANGED <<currentPrompt, isLoadingIdeas, error, selectedGenre, hasApiKey, calls>>

\* Continuation after the await when the call returned: try body + finally.
OnResolved(j, ideas) ==
  /\ storyIdeas' = ideas
  /\ isLoadingIdeas' = FALSE
  /\ lastResult' = [kind |-> "ok", prompt |-> inflight[j].prompt,
                    ideas |-> ideas, thrown |-> [message |-> None]]
  /\ inflight' = Without(inflight, j)
  /\ lastAct' = "resolved"
  /\ UNCHANGED <<currentPrompt, error, selectedGenre, hasApiKey, calls>>

\* A plausible slip: the catch block calls the service again.
OnRejectedRetries(j, e) ==
  /\ error' = Some(ErrorText(e))
  /\ lastResult' = [kind |-> "err", prompt |-> inflight[j].prompt,
                    ideas |-> <<>>, thrown |-> e]
  /\ IF calls < MaxCalls
       THEN /\ calls' = calls + 1
            /\ inflight' = Append(Without(inflight, j), inflight[j])
            /\ UNCHANGED isLoadingIdeas
       ELSE /\ inflight' = Without(inflight, j)
            /\ isLoadingIdeas' = FALSE
            /\ UNCHANGED calls
  /\ lastAct' = "rejected"
  /\ UNCHANGED <<currentPrompt, storyIdeas, selectedGenre, hasApiKey>>

\* A plausible slip: the loading flag is reset only on the success path.
OnRejectedNoFinally(j, e) ==
  /\ error' = Some(ErrorText(e))
  /\ lastResult' = [kind |-> "err", prompt |-> inflight[j].prompt,
                    ideas |-> <<>>, thrown |-> e]
  /\ inflight' = Without(inflight, j)
  /\ lastAct' = "rejected"
  /\ UNCHANGED <<currentPrompt, storyIdeas, isLoadingIdeas, selectedGenre, hasApiKey, calls>>

\* Continuation after the await when the call threw: catch + finally.
OnRejected(j, e) ==
  /\ error' = Some(ErrorText(e))
  /\ isLoadingIdeas' = FALSE
  /\ lastResult' = [kind |-> "err", prompt |-> inflight[j].prompt,
                    ideas |-> <<>>, thrown |-> e]
  /\ inflight' = Without(inflight, j)
  /\ lastAct' = "rejected"
  /\ UNCHANGED <<currentPrompt, storyIdeas, selectedGenre, hasApiKey, calls>>

\* The service answers a pending call with a list of ideas.
Resolve == \E j \in 1..Len(inflight) : \E ideas \in IdeaLists : OnResolved(j, ideas)

\* The service call throws.
Reject == \E j \in 1..Len(inflight) : \E e \in Thrown : OnRejected(j, e)

Next ==
  \/ handleGeneratePrompt
  \/ GenreSelectorOnChange
  \/ ChangeGenreOnClick
  \/ SparkCreativityOnClick
  \/ Resolve
  \/ Reject

Spec == Init /\ [][Next]_vars

\* handleGenerateIdeas called as a function, whatever the button's disabled
\* attribute says.
CallHandleGenerateIdeas == handleGenerateIdeas

HandlerNext ==
  \/ handleGeneratePrompt
  \/ GenreSelectorOnChange
  \/ ChangeGenreOnClick
  \/ CallHandleGenerateIdeas
  \/ Resolve
  \/ Reject

HandlerSpec == Init /\ [][HandlerNext]_vars

\* The service call eventually settles.
LiveSpec == Spec /\ WF_vars(Resolve \/ Reject)

TypeOK ==
  /\ currentPrompt \in {NoPrompt} \cup PromptRefs
  /\ storyIdeas \in IdeaLists
  /\ isLoadingIdeas \in BOOLEAN
  /\ Len(error) <= 1
  /\ \E i \in 1..Len(GENRES) : selectedGenre = GENRES[i]
  /\ hasApiKey \in BOOLEAN
  /\ calls \in 0..MaxCalls

\* ------------------------------------------------------------ properties
\* Steps, recognised by what they leave behind.
IssueStep == calls' # calls
UserStep == lastAct' \in {"generatePrompt", "selectGenre", "changeGenre"}
SettleStep == lastAct' \in {"resolved", "rejected"}

\* C1: the idea list is only non-empty when a prompt is selected
\* (storyIdeas non-empty implies currentPrompt is not null), also when a
\* request completes after Change Genre.
C1_IdeasOnlyWithPrompt == Len(storyIdeas) > 0 => currentPrompt # NoPrompt

\* C2: every step that changes currentPrompt, and every Change Genre click
\* and genre selection, leaves storyIdeas empty in the state it produces.
C2_ClearedWhenPromptChanges ==
  [][ (currentPrompt' # currentPrompt \/ lastAct' \in {"changeGenre", "selectGenre"})
        => storyIdeas' = <<>> ]_vars

\* Change Genre was pressed on a prompt whose ideas had been shown.
C2_Witness ==
  /\ lastAct = "changeGenre"
  /\ calls = 1 /\ inflight = <<>>
  /\ lastResult.kind = "ok" /\ Len(lastResult.ideas) > 0
  /\ currentPrompt = NoPrompt /\ storyIdeas = <<>>

\* C3: an accepted idea request empties storyIdeas at once, and a successful
\* answer makes storyIdeas exactly the returned sequence, in order.
C3_ReplacedWholesale ==
  [][ /\ IssueStep => storyIdeas' = <<>>
      /\ lastAct' = "resolved" => storyIdeas' = lastResult'.ideas ]_vars

\* A second request on the same prompt returned a two-element list.
C3_Witness ==
  /\ lastAct = "resolved" /\ calls = 2
  /\ currentPrompt # NoPrompt /\ lastResult.prompt = currentPrompt
  /\ storyIdeas = <<"idea-b", "idea-a">>

\* C4: the number of generateStoryIdeas calls changes only by an accepted
\* Spark Creativity click, and then by exactly one; a failed call is not
\* followed by another call unless the user clicks again.
C4_SingleCallNoRetry ==
  [][ /\ IssueStep => /\ calls' = calls + 1
                      /\ lastAct' = "generateIdeas"
                      /\ Len(inflight') = Len(inflight) + 1
      /\ lastAct' = "rejected" => calls' = calls /\ Len(inflight') = Len(inflight) - 1 ]_vars

\* The only call failed, the user went on, and nothing is pending.
C4_Witness ==
  /\ lastResult.kind = "err" /\ lastAct = "changeGenre"
  /\ calls = 1 /\ inflight = <<>>

\* C5: no user action removes a pending request; a request leaves the
\* pending set only by settling, and its outcome is written over whatever
\* prompt and genre are selected at that moment.
C5_NoCancellation ==
  [][ /\ UserStep => inflight' = inflight
      /\ inflight' # inflight /\ ~IssueStep =>
           /\ SettleStep
           /\ Len(inflight') = Len(inflight) - 1
           /\ isLoadingIdeas' = FALSE
           /\ currentPrompt' = currentPrompt /\ selectedGenre' = selectedGenre
           /\ lastAct' = "resolved" => storyIdeas' = lastResult'.ideas /\ error' = error
           /\ lastAct' = "rejected" => error' # None /\ storyIdeas' = storyIdeas ]_vars

\* The answer arrived after Change Genre and Generate a Prompt picked
\* another prompt.
C5_Witness ==
  /\ lastAct = "resolved"
  /\ currentPrompt # NoPrompt /\ lastResult.prompt # currentPrompt
  /\ storyIdeas = lastResult.ideas /\ Len(storyIdeas) > 0

\* C6: once a failure has been handled, error is the message of the thrown
\* error, or "An unknown error occurred." when that message is empty or
\* absent; storyIdeas is empty and isLoadingIdeas is false.
C6_ErrorSurfaced ==
  lastAct = "rejected" =>
    /\ LET m == lastResult.thrown.message IN
         error = IF m = None \/ m = Some("")
                   THEN Some("An unknown error occurred.")
                   ELSE m
    /\ storyIdeas = <<>>
    /\ isLoadingIdeas = FALSE

\* A failure with an empty message was handled.
C6_Witness ==
  /\ lastAct = "rejected"
  /\ lastResult.thrown.message = Some("")
  /\ error = Some("An unknown error occurred.")

\* C7: a request is started only when a prompt is selected and nothing is
\* loading; and, the service call eventually settling, every loading state
\* leads to a state that is not loading and holds the returned ideas or an
\* error message.
C7_Flow ==
  /\ [][ IssueStep => currentPrompt # NoPrompt /\ ~isLoadingIdeas ]_vars
  /\ isLoadingIdeas ~>
       /\ ~isLoadingIdeas
       /\ \/ lastResult.kind = "ok" /\ storyIdeas = lastResult.ideas
          \/ lastResult.kind = "err" /\ error # None

\* idea-shown: the prompt is still selected and its ideas are listed.
C7_Witness ==
  /\ lastAct = "resolved" /\ calls = 1 /\ ~isLoadingIdeas
  /\ currentPrompt # NoPrompt /\ lastResult.prompt = currentPrompt
  /\ Len(storyIdeas) > 0

\* C8: a non-empty idea list was generated for the prompt that is currently
\* selected, also when Change Genre and Generate a Prompt are pressed while
\* the request is in flight.
C8_IdeasForCurrentPrompt ==
  Len(storyIdeas) > 0 => lastResult.kind = "ok" /\ lastResult.prompt = currentPrompt

\* C9: at most one idea request is in flight at any time.
C9_AtMostOneInFlight == Len(inflight) <= 1

\* Change Genre and Generate a Prompt were pressed during loading; the
\* request is still the only one.
C9_Witness ==
  /\ Len(inflight) = 1 /\ calls = 1
  /\ lastAct = "generatePrompt" /\ currentPrompt # NoPrompt

\* C10: isLoadingIdeas is true exactly when a request is in flight, and only
\* issuing or settling a request changes it.
C10_LoadingIffInFlight ==
  /\ [](isLoadingIdeas <=> inflight # <<>>)
  /\ [][ isLoadingIdeas' # isLoadingIdeas
           => lastAct' \in {"generateIdeas", "resolved", "rejected"} ]_vars

\* A genre was selected while the request was pending; the flag is still set.
C10_Witness ==
  /\ isLoadingIdeas /\ Len(inflight) = 1
  /\ lastAct = "selectGenre" /\ currentPrompt = NoPrompt

\* C11: a selected prompt is a member of PROMPTS and matches the genre
\* filter: selectedGenre is 'All' or equals the prompt's genre.
C11_PromptMatchesGenre ==
  currentPrompt # NoPrompt =>
    /\ currentPrompt \in 1..Len(PROMPTS)
    /\ selectedGenre = "All" \/ PROMPTS[currentPrompt].genre = selectedGenre

\* A prompt was picked under a genre filter that excludes other prompts.
C11_Witness ==
  /\ lastAct = "generatePrompt"
  /\ selectedGenre = "Sci-Fi" /\ currentPrompt = 3

\* C12: an error message and a non-empty idea list are never present
\* together, also when Generate a Prompt reports an empty genre while a
\* request is in flight and that request then succeeds.
C12_ErrorExcludesIdeas == error # None => storyIdeas = <<>>

\* C13: without an API key no idea request is ever issued and
\* isLoadingIdeas is never true; handleGenerateIdeas with a selected prompt
\* only sets error to the 'AI features are disabled' message and leaves
\* currentPrompt, storyIdeas, isLoadingIdeas and selectedGenre unchanged.
C13_NoKeyNoRequest ==
  /\ [](~hasApiKey => calls = 0 /\ inflight = <<>> /\ ~isLoadingIdeas)
  /\ [][ (~hasApiKey /\ currentPrompt # NoPrompt /\ lastAct' = "generateIdeas") =>
           /\ error' = Some("AI features are disabled. Please configure your API key.")
           /\ UNCHANGED <<currentPrompt, storyIdeas, isLoadingIdeas, selectedGenre>> ]_vars

\* The handler ran with a prompt selected and no API key.
C13_Witness ==
  /\ ~hasApiKey /\ currentPrompt # NoPrompt
  /\ lastAct = "generateIdeas"
  /\ error = Some("AI features are disabled. Please configure your API key.")
  /\ calls = 0 /\ ~isLoadingIdeas

\* The prompts of PROMPTS that carry the genre, 'All' matching every prompt.
Matching(genre) ==
  {i \in 1..Len(PROMPTS) : genre = "All" \/ PROMPTS[i].genre = genre}

\* C14: when no prompt has the selected genre, handleGeneratePrompt sets
\* error to the 'No prompts found' message for that genre and leaves
\* currentPrompt, storyIdeas, isLoadingIdeas and selectedGenre unchanged;
\* otherwise it selects one of the matching prompts and leaves error null.
C14_GeneratePrompt ==
  [][ lastAct' = "generatePrompt" =>
        IF Matching(selectedGenre) = {}
          THEN /\ error' = Some("No prompts found for the \"" \o selectedGenre
                                \o "\" genre. Please select another.")
               /\ UNCHANGED <<currentPrompt, storyIdeas, isLoadingIdeas, selectedGenre>>
          ELSE /\ currentPrompt' \in Matching(selectedGenre)
               /\ error' = None ]_vars

\* Generate a Prompt was pressed under a genre that no prompt carries.
C14_Witness ==
  /\ lastAct = "generatePrompt"
  /\ selectedGenre = "Mystery" /\ currentPrompt = NoPrompt
  /\ error = Some("No prompts found for the \"Mystery\" genre. Please select another.")

\* C15: a genre selection sets selectedGenre to a value of GENRES,
\* currentPrompt to null, storyIdeas to empty and error to null; it happens
\* only while no prompt is selected, so selectedGenre never changes while a
\* prompt is shown.
C15_GenreSelectionResets ==
  [][ /\ lastAct' = "selectGenre" =>
           /\ currentPrompt = NoPrompt
           /\ \E i \in 1..Len(GENRES) : selectedGenre' = GENRES[i]
           /\ currentPrompt' = NoPrompt /\ storyIdeas' = <<>> /\ error' = None
      /\ selectedGenre' # selectedGenre =>
           lastAct' = "selectGenre" /\ currentPrompt = NoPrompt ]_vars

\* A genre was selected while the message of a failed request was shown.
C15_Witness ==
  /\ lastAct = "selectGenre" /\ selectedGenre = "Fantasy"
  /\ lastResult.kind = "err" /\ inflight = <<>>
  /\ currentPrompt = NoPrompt /\ storyIdeas = <<>> /\ error = None

\* C16: Change Genre sets currentPrompt to null and storyIdeas to empty and
\* leaves error, selectedGenre and isLoadingIdeas unchanged; an error message
\* goes away only by Generate a Prompt, a genre selection or an accepted idea
\* request.
C16_ChangeGenreFrame ==
  [][ /\ lastAct' = "changeGenre" =>
           /\ currentPrompt' = NoPrompt /\ storyIdeas' = <<>>
           /\ UNCHANGED <<error, selectedGenre, isLoadingIdeas>>
      /\ (error # None /\ error' = None) =>
           lastAct' \in {"generatePrompt", "selectGenre", "generateIdeas"} ]_vars

\* The message of a failed request is still shown after Change Genre.
C16_Witness ==
  /\ lastAct = "changeGenre" /\ lastResult.kind = "err"
  /\ currentPrompt = NoPrompt
  /\ error = Some("quota exceeded")
====
